---- MODULE Spec2Model ----
(***************************************************************************)
(* Consolidation pipeline of ts-runtime-validation: file discovery,        *)
(* per-file schema extraction (parallel or sequential), compatibility      *)
(* validation, merge, and the orchestration in SchemaGenerator.Generate.   *)
(***************************************************************************)
EXTENDS Integers, Sequences, FiniteSets, TLC

(***************************************************************************)
(* Bounds of the model.                                                    *)
(***************************************************************************)
\* at most this many definitions, over all its fragments, in such a map
MaxDefs == 2
\* at most this many fragments in a map handed directly to the consolidator
MaxFragments == 2
\* the runs with the cache: at most this many runs of Generate in a row
MaxRuns == 2

(***************************************************************************)
(* Strings.  A string is named by a TLA+ string; CodeUnits gives its       *)
(* UTF-16 code units, which is what Array.prototype.sort() without a       *)
(* comparator orders by, and CollationKey gives its rank under the default *)
(* collation, which is what String.prototype.localeCompare orders by.      *)
(*   "Z.ts"        Z                                                       *)
(*   "e+acute.ts"  e followed by U+0301 COMBINING ACUTE ACCENT (NFD)       *)
(*   "eacute.ts"   U+00E9 LATIN SMALL LETTER E WITH ACUTE (NFC)            *)
(* The last two are distinct file names that are canonically equivalent:   *)
(* code-unit order separates them, localeCompare returns 0 on them.  Code  *)
(* units put Z first, collation puts it last.                              *)
(***************************************************************************)
Paths == {"Z.ts", "e+acute.ts", "eacute.ts"}

Symbols == {"Zebra", "apple", "toString"}

CodeUnits(s) ==
    CASE s = "Z.ts"       -> <<90, 46, 116, 115>>
      [] s = "e+acute.ts" -> <<101, 769, 46, 116, 115>>
      [] s = "eacute.ts"  -> <<233, 46, 116, 115>>
      [] s = "Zebra"      -> <<90, 101, 98, 114, 97>>
      [] s = "apple"      -> <<97, 112, 112, 108, 101>>
      [] s = "toString"   -> <<116, 111, 83, 116, 114, 105, 110, 103>>

\* rank of a string under the default (root) collation: e-acute < Z and
\* apple < toString < Zebra (case is a third-level difference), and the two
\* canonically equivalent spellings of e-acute have the same key
CollationKey(s) ==
    CASE s = "e+acute.ts" -> 2
      [] s = "eacute.ts"  -> 2
      [] s = "Z.ts"       -> 3
      [] s = "apple"      -> 11
      [] s = "toString"   -> 12
      [] s = "Zebra"      -> 13

RECURSIVE LexLess(_, _)
\* u sorts before v in code-unit order (the default sort order of strings)
LexLess(u, v) ==
    IF v = <<>> THEN FALSE
    ELSE IF u = <<>> THEN TRUE
    ELSE IF Head(u) # Head(v) THEN Head(u) < Head(v)
    ELSE LexLess(Tail(u), Tail(v))

\* the order of Array.prototype.sort() with no comparator
OrdinalBefore(a, b) == LexLess(CodeUnits(a), CodeUnits(b))

\* a.localeCompare(b): negative, zero or positive
localeCompare(a, b) ==
    IF CollationKey(a) < CollationKey(b) THEN -1
    ELSE IF CollationKey(a) > CollationKey(b) THEN 1
    ELSE 0

\* Array.prototype.sort is stable: elements the comparator does not order
\* keep their relative position.  Before is the strict order "comes first".
StableSort(s, Before(_, _)) ==
    LET n == Len(s)
        Rank(i) == Cardinality({j \in 1..n :
                        \/ Before(s[j], s[i])
                        \/ (~Before(s[i], s[j]) /\ j < i)}) + 1
    IN  [k \in 1..n |-> s[CHOOSE i \in 1..n : Rank(i) = k]]

Range(s) == {s[i] : i \in 1..Len(s)}

(***************************************************************************)
(* Schema nodes.  The consolidator compares nodes with assert.deepEqual    *)
(* and otherwise treats them as opaque; a node is modelled as the JSON     *)
(* primitive it carries at one annotation (e.g. "default"): the number 1,  *)
(* the string "1" or the number 2.  v is the primitive's numeral.          *)
(***************************************************************************)
Number1 == [t |-> "number", v |-> "1"]
String1 == [t |-> "string", v |-> "1"]
Number2 == [t |-> "number", v |-> "2"]
Nodes == {Number1, String1, Number2}

\* what a plain object returns for a key it does not own but inherits from
\* Object.prototype (a function), and for a key it does not have at all
InheritedFunction == [t |-> "function", v |-> "Object.prototype"]
Undefined == [t |-> "undefined", v |-> ""]

\* names every object literal {} inherits from Object.prototype
ObjectPrototypeKeys == {"toString"}

\* deep structural equality of two nodes (same type and same value)
StructurallyEqual(a, b) == a = b

\* assert.deepEqual of the legacy "assert" module: primitives are compared
\* with ==, so the number 1 and the string "1" are equal; a function is
\* equal to nothing but itself
deepEqual(a, b) ==
    IF a.t = "function" \/ b.t = "function" THEN a = b
    ELSE a.v = b.v

(***************************************************************************)
(* Objects and Maps keep insertion order: both are sequences of            *)
(* <<key, value>> pairs with distinct keys.                                *)
(***************************************************************************)
Keys(o) == [i \in 1..Len(o) |-> o[i][1]]
Has(o, k) == \E i \in 1..Len(o) : o[i][1] = k
Get(o, k) == o[CHOOSE i \in 1..Len(o) : o[i][1] = k][2]
\* o[k] = v and Map.set(k, v): an existing key keeps its position
Set(o, k, v) ==
    IF Has(o, k)
    THEN [i \in 1..Len(o) |-> IF o[i][1] = k THEN <<k, v>> ELSE o[i]]
    ELSE Append(o, <<k, v>>)

\* definitions[key] on an object created by the literal {}
Lookup(definitions, key) ==
    IF Has(definitions, key) THEN Get(definitions, key)
    ELSE IF key \in ObjectPrototypeKeys THEN InheritedFunction
    ELSE Undefined

(***************************************************************************)
(* Fragments (the Schema returned by the extractor for one file) and the   *)
(* fragment map Map<string, Schema> keyed by file path.                    *)
(***************************************************************************)
\* "" stands for a fragment that declares no $schema
Dialects == {"", "draft-07", "2019-09"}

DefaultDialect == "draft-07"

\* sequences without repetition over S, of length at most n
SeqsNoDup(S, n) ==
    UNION {{q \in [1..k -> S] : \A i, j \in 1..k : i # j => q[i] # q[j]} : k \in 0..n}

\* every definitions object: keys in any insertion order, any nodes
DefinitionObjects(n) ==
    UNION {{[i \in 1..Len(ks) |-> <<ks[i], ns[i]>>] : ns \in [1..Len(ks) -> Nodes]} :
           ks \in SeqsNoDup(Symbols, n)}

(***************************************************************************)
(* Errors (errors/index.ts).                                               *)
(***************************************************************************)
NoError == [name |-> "none"]

FileDiscoveryError(message) ==
    [name |-> "FileDiscoveryError", code |-> "FILE_DISCOVERY_ERROR", message |-> <<message>>]

SchemaGenerationError(file) ==
    [name |-> "SchemaGenerationError", code |-> "SCHEMA_GENERATION_ERROR",
     message |-> <<"Failed to process", file>>]

DuplicateSymbolError(symbol, file, existingDefinition, newDefinition) ==
    [name |-> "DuplicateSymbolError", code |-> "DUPLICATE_SYMBOL_ERROR",
     message |-> <<"Duplicate symbol found with different implementations", symbol>>,
     symbol |-> symbol, file |-> file,
     existingDefinition |-> existingDefinition, newDefinition |-> newDefinition]

(***************************************************************************)
(* SchemaProcessor.validateSchemaCompatibility and mergeSchemas.           *)
(***************************************************************************)
\* [...schemaMap.entries()].sort(([a], [b]) => a.localeCompare(b))
SortedEntries(schemaMap) ==
    LET Before(x, y) == localeCompare(x[1], y[1]) < 0
    IN  StableSort(schemaMap, Before)

\* Object.keys(defs).sort()
SortedKeys(defs) == StableSort(Keys(defs), OrdinalBefore)

\* the test of line 146-149: the key is already recorded (or inherited) and
\* assert.deepEqual rejects the pair
Conflicts(definitions, key, node) ==
    /\ Lookup(definitions, key) # Undefined
    /\ ~deepEqual(Lookup(definitions, key), node)

\* the constructor called with the path and the key in each other's place
ConflictErrorArgumentsSwapped(key, filePath, existing, new) ==
    DuplicateSymbolError(filePath, key, existing, new)

\* new DuplicateSymbolError(message, key, filePath, definitions[key], defs[key])
ConflictError(key, filePath, existing, new) ==
    DuplicateSymbolError(key, filePath, existing, new)

RECURSIVE ValidateKeys(_, _, _, _)
\* the forEach over the sorted keys of one fragment; returns the error
\* thrown (or NoError) and the definitions recorded so far
ValidateKeys(filePath, defs, keys, definitions) ==
    IF keys = <<>> THEN [error |-> NoError, definitions |-> definitions]
    ELSE LET key == Head(keys)
         IN  IF Conflicts(definitions, key, Get(defs, key))
             THEN [error |-> ConflictError(key, filePath,
                                 Lookup(definitions, key), Get(defs, key)),
                   definitions |-> definitions]
             ELSE ValidateKeys(filePath, defs, Tail(keys),
                               Set(definitions, key, Get(defs, key)))

RECURSIVE ValidateEntries(_, _)
ValidateEntries(entries, definitions) ==
    IF entries = <<>> THEN NoError
    ELSE LET filePath == Head(entries)[1]
             defs == Head(entries)[2].definitions
             r == ValidateKeys(filePath, defs, SortedKeys(defs), definitions)
         IN  IF r.error # NoError THEN r.error
             ELSE ValidateEntries(Tail(entries), r.definitions)

\* the error validateSchemaCompatibility throws, NoError when it returns
validateSchemaCompatibility(schemaMap) ==
    ValidateEntries(SortedEntries(schemaMap), <<>>)

RECURSIVE AssignKeysKeepingFirst(_, _, _)
\* the assignment skipped for a key that is already recorded
AssignKeysKeepingFirst(defs, keys, definitions) ==
    IF keys = <<>> THEN definitions
    ELSE AssignKeysKeepingFirst(defs, Tail(keys),
             IF Has(definitions, Head(keys)) THEN definitions
             ELSE Set(definitions, Head(keys), Get(defs, Head(keys))))

RECURSIVE AssignKeys(_, _, _)
\* Object.keys(defs).sort().forEach(key => definitions[key] = defs[key])
AssignKeys(defs, keys, definitions) ==
    IF keys = <<>> THEN definitions
    ELSE AssignKeys(defs, Tail(keys), Set(definitions, Head(keys), Get(defs, Head(keys))))

\* the dialect of every declaring fragment taken, the last one staying
SchemaVersionOverwritten(schemaVersion, fileSchema) ==
    IF fileSchema.schema # "" THEN fileSchema.schema ELSE schemaVersion

\* if (!schemaVersion && fileSchema["$schema"]) schemaVersion = fileSchema["$schema"]
SchemaVersion(schemaVersion, fileSchema) ==
    IF schemaVersion = "" /\ fileSchema.schema # ""
    THEN fileSchema.schema ELSE schemaVersion

RECURSIVE MergeEntries(_, _)
\* the loop of mergeSchemas; acc holds schemaVersion and definitions
MergeEntries(entries, acc) ==
    IF entries = <<>> THEN acc
    ELSE LET fileSchema == Head(entries)[2]
             version == SchemaVersion(acc.schemaVersion, fileSchema)
         IN  MergeEntries(Tail(entries),
                 [schemaVersion |-> version,
                  definitions |-> AssignKeys(fileSchema.definitions,
                                      SortedKeys(fileSchema.definitions),
                                      acc.definitions)])

\* the final sort done with localeCompare instead of the default order
SortDefinitionsByLocale(definitions) ==
    LET Before(a, b) == localeCompare(a, b) < 0
        keys == StableSort(Keys(definitions), Before)
    IN  [i \in 1..Len(keys) |-> <<keys[i], Get(definitions, keys[i])>>]

\* Object.keys(definitions).sort().forEach(key => sortedDefinitions[key] = ...)
SortDefinitions(definitions) ==
    LET keys == StableSort(Keys(definitions), OrdinalBefore)
    IN  [i \in 1..Len(keys) |-> <<keys[i], Get(definitions, keys[i])>>]

mergeSchemas(schemaMap) ==
    LET acc == MergeEntries(SortedEntries(schemaMap),
                            [schemaVersion |-> "", definitions |-> <<>>])
    IN  [schema |-> IF acc.schemaVersion # "" THEN acc.schemaVersion ELSE DefaultDialect,
         definitions |-> SortDefinitions(acc.definitions)]

(***************************************************************************)
(* Source artifacts.  The content of a file is identified with what the    *)
(* extractor makes of it: a malformed file makes it throw, any other file  *)
(* yields a fragment.  The extractor (ts-json-schema-generator) always     *)
(* declares the draft-07 dialect.                                          *)
(***************************************************************************)
Absent == [kind |-> "absent"]
Malformed == [kind |-> "malformed"]
Source(fragment) == [kind |-> "source", fragment |-> fragment]

\* a source file with one declaration
Declares(symbol, node) ==
    Source([schema |-> "draft-07", definitions |-> <<<<symbol, node>>>>])

\* what a file under the root may contain: malformed text, a declaration of
\* Zebra with any of the nodes, or a declaration of apple
Contents ==
    {Malformed} \cup {Declares("Zebra", n) : n \in Nodes} \cup {Declares("apple", Number1)}

\* null / undefined where a Schema is expected
Null == [kind |-> "null"]

\* crypto.createHash('md5').update(content).digest('hex'): a digest that
\* tells apart the contents in use
md5(content) == [md5 |-> content]

NoHash == [md5 |-> Absent]

(***************************************************************************)
(* FileDiscovery.                                                          *)
(***************************************************************************)
NoCacheFile == [dir |-> FALSE, exists |-> FALSE, corrupt |-> FALSE, data |-> <<>>]

\* the content of the file taken as it is, without the try / catch
loadCacheUnguarded(cacheFile) ==
    IF cacheFile.exists THEN cacheFile.data ELSE <<>>

\* loadCache, called by the constructor when caching is enabled
loadCache(cacheFile) ==
    IF cacheFile.exists /\ ~cacheFile.corrupt THEN cacheFile.data ELSE <<>>

\* console.warn('Failed to load cache, starting fresh') in the catch
loadCacheWarnings(cacheFile) ==
    IF cacheFile.exists /\ cacheFile.corrupt
    THEN <<[level |-> "warn", text |-> "Failed to load cache, starting fresh",
            arg |-> "", n |-> 0]>>
    ELSE <<>>

RECURSIVE SetAll(_, _)
\* files.forEach(file => map.set(file.path, file.hash))
SetAll(map, files) ==
    IF files = <<>> THEN map
    ELSE SetAll(Set(map, Head(files).path, Head(files).hash), Tail(files))

\* the cache data holding the hash of the first file only
cacheDataOfFirst(files) == SetAll(<<>>, SubSeq(files, 1, 1))

\* saveCache: cacheData = {}; files.forEach(file => cacheData[file.path] = file.hash)
cacheData(files) == SetAll(<<>>, files)

\* the files hashed, the cache file written only when there is none yet
enrichWithCacheInfoKeepingFile(sortedFiles, disk, io, fileCache, cacheFile) ==
    LET enriched == [i \in 1..Len(sortedFiles) |->
                        [path |-> sortedFiles[i], hash |-> md5(disk[sortedFiles[i]])]]
    IN  IF io # "ok"
        THEN [threw |-> TRUE, files |-> <<>>, writes |-> <<>>,
              fileCache |-> fileCache, cacheFile |-> cacheFile]
        ELSE IF cacheFile.exists
        THEN [threw |-> FALSE, files |-> enriched, writes |-> <<>>,
              fileCache |-> SetAll(fileCache, enriched), cacheFile |-> cacheFile]
        ELSE [threw |-> FALSE, files |-> enriched, writes |-> <<cacheData(enriched)>>,
              fileCache |-> SetAll(fileCache, enriched),
              cacheFile |-> [dir |-> TRUE, exists |-> TRUE, corrupt |-> FALSE,
                             data |-> cacheData(enriched)]]

\* enrichWithCacheInfo followed by saveCache; io names the file-system call
\* that fails, if any: stat or readFile of an artifact, mkdir of the cache
\* directory, writeFile before it touches the file ("write") or after it
\* truncated it ("truncated").  writes is what was written to the file.
enrichWithCacheInfo(sortedFiles, disk, io, fileCache, cacheFile) ==
    LET enriched == [i \in 1..Len(sortedFiles) |->
                        [path |-> sortedFiles[i], hash |-> md5(disk[sortedFiles[i]])]]
    IN  IF io = "stat" \/ (io = "mkdir" /\ ~cacheFile.dir)
        THEN [threw |-> TRUE, files |-> <<>>, writes |-> <<>>,
              fileCache |-> fileCache, cacheFile |-> cacheFile]
        ELSE IF io = "write"
        THEN [threw |-> TRUE, files |-> <<>>, writes |-> <<>>,
              fileCache |-> SetAll(fileCache, enriched),
              cacheFile |-> [cacheFile EXCEPT !.dir = TRUE]]
        ELSE IF io = "truncated"
        THEN [threw |-> TRUE, files |-> <<>>, writes |-> <<>>,
              fileCache |-> SetAll(fileCache, enriched),
              cacheFile |-> [dir |-> TRUE, exists |-> TRUE, corrupt |-> TRUE,
                             data |-> <<>>]]
        ELSE [threw |-> FALSE, files |-> enriched, writes |-> <<cacheData(enriched)>>,
              fileCache |-> SetAll(fileCache, enriched),
              cacheFile |-> [dir |-> TRUE, exists |-> TRUE, corrupt |-> FALSE,
                             data |-> cacheData(enriched)]]

\* cachedHash === currentHash
hasFileUnchanged(fileCache, filePath, currentHash) ==
    Has(fileCache, filePath) /\ Get(fileCache, filePath) = currentHash

\* hasFileChanged: this.fileCache.get(filePath) !== currentHash
hasFileChanged(fileCache, filePath, currentHash) ==
    IF Has(fileCache, filePath) THEN Get(fileCache, filePath) # currentHash ELSE TRUE

\* the file deleted, the in-memory mapping kept
clearCacheFileOnly(fileCache, cacheFile, io) ==
    IF cacheFile.exists /\ io = "unlink"
    THEN [threw |-> TRUE, fileCache |-> fileCache, cacheFile |-> cacheFile]
    ELSE [threw |-> FALSE, fileCache |-> fileCache,
          cacheFile |-> [cacheFile EXCEPT !.exists = FALSE, !.corrupt = FALSE,
                                          !.data = <<>>]]

\* clearCache: this.fileCache.clear(), then unlinkSync when the file exists;
\* io = "unlink" makes unlinkSync throw
clearCache(fileCache, cacheFile, io) ==
    IF cacheFile.exists /\ io = "unlink"
    THEN [threw |-> TRUE, fileCache |-> <<>>, cacheFile |-> cacheFile]
    ELSE [threw |-> FALSE, fileCache |-> <<>>,
          cacheFile |-> [cacheFile EXCEPT !.exists = FALSE, !.corrupt = FALSE,
                                          !.data = <<>>]]

\* the crawl result used as it comes, without sorting
SortFilesOmitted(files) == files

\* [...files].sort(): code-unit order
SortFiles(files) == StableSort(files, OrdinalBefore)

\* the check for an empty crawl result left out
NoFilesFoundUnchecked(found) == FALSE

\* if (files.length === 0) throw new FileDiscoveryError(...)
NoFilesFound(found) == Len(found) = 0

\* discoverFiles with the saveCache call made in every configuration.
discoverFilesAlwaysCaching(crawl, cacheEnabled, disk, io, fileCache, cacheFile) ==
    IF crawl.threw \/ NoFilesFound(crawl.files)
    THEN [error |-> FileDiscoveryError("Failed to discover files"), files |-> <<>>,
          writes |-> <<>>, fileCache |-> fileCache, cacheFile |-> cacheFile]
    ELSE LET e == enrichWithCacheInfo(SortFiles(crawl.files), disk, io, fileCache, cacheFile)
         IN  [error |-> IF e.threw THEN FileDiscoveryError("Failed to discover files")
                        ELSE NoError,
              files |-> e.files, writes |-> e.writes,
              fileCache |-> e.fileCache, cacheFile |-> e.cacheFile]

\* discoverFiles.  crawl is what fdir yields: it threw, or a list of paths in
\* the order the file system enumerated them.  Returns the error thrown (or
\* NoError), the FileInfo list and the cache state it leaves.
discoverFiles(crawl, cacheEnabled, disk, io, fileCache, cacheFile) ==
    LET failed(message) == [error |-> FileDiscoveryError(message), files |-> <<>>,
                            writes |-> <<>>,
                            fileCache |-> fileCache, cacheFile |-> cacheFile]
    IN  IF crawl.threw THEN failed("Failed to discover files")
        ELSE IF NoFilesFound(crawl.files) THEN failed("No files found matching pattern")
        ELSE LET sortedFiles == SortFiles(crawl.files)
             IN  IF cacheEnabled
                 THEN LET e == enrichWithCacheInfo(sortedFiles, disk, io, fileCache, cacheFile)
                      IN  [error |-> IF e.threw
                                     THEN FileDiscoveryError("Failed to discover files")
                                     ELSE NoError,
                           files |-> e.files, writes |-> e.writes,
                           fileCache |-> e.fileCache, cacheFile |-> e.cacheFile]
                 ELSE [error |-> NoError,
                       files |-> [i \in 1..Len(sortedFiles) |->
                                     [path |-> sortedFiles[i], hash |-> NoHash]],
                       writes |-> <<>>,
                       fileCache |-> fileCache, cacheFile |-> cacheFile]

(***************************************************************************)
(* SchemaProcessor.processFiles.                                           *)
(***************************************************************************)
\* const sortedFiles = [...files].sort((a, b) => a.path.localeCompare(b.path))
SortByPath(files) ==
    LET Before(x, y) == localeCompare(x.path, y.path) < 0
    IN  StableSort(files, Before)

\* processFile: how the promise for one file settles
processFile(file, disk) ==
    IF disk[file.path].kind = "source"
    THEN [status |-> "fulfilled",
          value |-> [file |-> file.path, schema |-> disk[file.path].fragment,
                     error |-> NoError]]
    ELSE [status |-> "rejected", reason |-> SchemaGenerationError(file.path)]

\* the ProcessingResult both modes record for a settled promise
ResultOf(file, settlement) ==
    IF settlement.status = "fulfilled" THEN settlement.value
    ELSE [file |-> file.path, schema |-> Null, error |-> settlement.reason]

\* results collected in the order in which the tasks completed
processInCompletionOrder(files, settled, disk) ==
    [k \in 1..Len(settled) |->
        ResultOf(files[settled[k]], processFile(files[settled[k]], disk))]

\* processInParallel: Promise.allSettled keeps the order of the promises, so
\* slot index holds the result of files[index] whatever the order (settled)
\* in which the tasks completed
processInParallel(files, settled, disk) ==
    [index \in 1..Len(files) |-> ResultOf(files[index], processFile(files[index], disk))]

RECURSIVE CollectUntilError(_, _)
\* the loop leaving at the first result with an error (break for continue)
CollectUntilError(sortedResults, acc) ==
    IF sortedResults = <<>> THEN acc
    ELSE LET result == Head(sortedResults)
         IN  IF result.error # NoError
             THEN [acc EXCEPT !.errors = Append(@, result.error)]
             ELSE IF result.schema # Null
             THEN CollectUntilError(Tail(sortedResults),
                      [acc EXCEPT !.schemaMap = Set(@, result.file, result.schema)])
             ELSE CollectUntilError(Tail(sortedResults), acc)

RECURSIVE CollectSchemas(_, _)
\* the loop of consolidateSchemas over the sorted results
CollectSchemas(sortedResults, acc) ==
    IF sortedResults = <<>> THEN acc
    ELSE LET result == Head(sortedResults)
         IN  IF result.error # NoError
             THEN CollectSchemas(Tail(sortedResults),
                      [acc EXCEPT !.errors = Append(@, result.error)])
             ELSE IF result.schema # Null
             THEN CollectSchemas(Tail(sortedResults),
                      [acc EXCEPT !.schemaMap = Set(@, result.file, result.schema)])
             ELSE CollectSchemas(Tail(sortedResults), acc)

\* the results sorted with the comparison turned round
SortResultsDescending(results) ==
    LET Before(x, y) == localeCompare(y.file, x.file) < 0
    IN  StableSort(results, Before)

\* [...results].sort((a, b) => a.file.localeCompare(b.file))
SortResults(results) ==
    LET Before(x, y) == localeCompare(x.file, y.file) < 0
    IN  StableSort(results, Before)

Line(level, text, arg, n) == [level |-> level, text |-> text, arg |-> arg, n |-> n]

\* only the first error printed after the count
WarningsFirstOnly(errors, verbose) ==
    IF Len(errors) > 0 /\ verbose
    THEN <<Line("warn", "Encountered errors during processing", "", Len(errors)),
           Line("warn", errors[1].message[1], errors[1].message[2], 0)>>
    ELSE <<>>

\* the console.warn lines of consolidateSchemas
Warnings(errors, verbose) ==
    IF Len(errors) > 0 /\ verbose
    THEN <<Line("warn", "Encountered errors during processing", "", Len(errors))>>
         \o [i \in 1..Len(errors) |-> Line("warn", errors[i].message[1], errors[i].message[2], 0)]
    ELSE <<>>

\* consolidateSchemas: the map of the results without error, the errors
\* collected, and what it prints
consolidateSchemas(results, verbose) ==
    LET acc == CollectSchemas(SortResults(results), [schemaMap |-> <<>>, errors |-> <<>>])
    IN  [schemaMap |-> acc.schemaMap, errors |-> acc.errors,
         console |-> Warnings(acc.errors, verbose)]

(***************************************************************************)
(* CodeGenerator.generateSchemaDefinition.                                 *)
(***************************************************************************)
\* the symbols the source file at a path declares as a type alias or an
\* interface (getTypeAlias / getInterface)
DeclaredIn(content) ==
    IF content.kind = "source" THEN Range(Keys(content.fragment.definitions)) ELSE {}

RECURSIVE TypeInfosOf(_, _, _)
\* Object.keys(defs).forEach(symbol => ... typeInfos.push({symbol, importPath}))
TypeInfosOf(filePath, keys, declared) ==
    IF keys = <<>> THEN <<>>
    ELSE IF Head(keys) \in declared
    THEN <<[symbol |-> Head(keys), importPath |-> filePath]>>
           \o TypeInfosOf(filePath, Tail(keys), declared)
    ELSE TypeInfosOf(filePath, Tail(keys), declared)

RECURSIVE extractTypeInfo(_, _)
\* schemaMap.forEach in the insertion order of the Map, the keys of every
\* fragment in the order of its definitions object
extractTypeInfo(schemaMap, disk) ==
    IF schemaMap = <<>> THEN <<>>
    ELSE LET filePath == Head(schemaMap)[1]
             defs == Head(schemaMap)[2].definitions
         IN  TypeInfosOf(filePath, Keys(defs), DeclaredIn(disk[filePath]))
               \o extractTypeInfo(Tail(schemaMap), disk)

\* the import declarations: one per import path in the order of its first
\* symbol, its symbols in the order of typeInfos
ImportsOf(typeInfos) ==
    LET firsts == SelectSeq([i \in 1..Len(typeInfos) |-> i],
                     LAMBDA i : \A j \in 1..(i - 1) :
                                   typeInfos[j].importPath # typeInfos[i].importPath)
        symbolsOf(importPath) ==
            LET own == SelectSeq(typeInfos, LAMBDA t : t.importPath = importPath)
            IN  [k \in 1..Len(own) |-> own[k].symbol]
    IN  [k \in 1..Len(firsts) |->
            [moduleSpecifier |-> typeInfos[firsts[k]].importPath,
             namedImports |-> symbolsOf(typeInfos[firsts[k]].importPath)]]

\* SchemaDefinition.ts: the imports, the entries of the schemas constant
\* and the properties of ISchema
writeSchemaDefinitionFile(typeInfos) ==
    [imports |-> ImportsOf(typeInfos),
     schemas |-> [i \in 1..Len(typeInfos) |-> typeInfos[i].symbol],
     ISchema |-> [i \in 1..Len(typeInfos) |-> typeInfos[i].symbol]]

\* generateStandardValidator: the content of isValidSchema.ts, which does
\* not depend on the symbols
generateStandardValidator == [validator |-> "standard"]

\* ValidationType.ts: the aliased imports and the type aliases of the
\* ValidationType namespace
writeValidationTypesFile(typeInfos) ==
    [imports |-> ImportsOf(typeInfos),
     namespace |-> [i \in 1..Len(typeInfos) |-> typeInfos[i].symbol]]

\* the tasks of the Promise.all of Generate, in the order of the array
HelperTasks == <<"generateSchemaDefinition", "generateValidatorFunction",
                 "generateValidationTypes">>

HelperFiles == {"SchemaDefinition.ts", "isValidSchema.ts", "ValidationType.ts"}

\* the output file a task creates in the project
OutputFileOf(task) ==
    CASE HelperTasks[task] = "generateSchemaDefinition" -> "SchemaDefinition.ts"
      [] HelperTasks[task] = "generateValidatorFunction" -> "isValidSchema.ts"
      [] HelperTasks[task] = "generateValidationTypes" -> "ValidationType.ts"

\* the text of the source file of a task once every statement that builds it
\* has run
CompleteText(task, typeInfos) ==
    CASE HelperTasks[task] = "generateSchemaDefinition" -> writeSchemaDefinitionFile(typeInfos)
      [] HelperTasks[task] = "generateValidatorFunction" -> generateStandardValidator
      [] HelperTasks[task] = "generateValidationTypes" -> writeValidationTypesFile(typeInfos)

\* the text of a source file right after createSourceFile(outputFile, {})
EmptyText == [empty |-> TRUE]

\* project.save() called right after createSourceFile, before the statements
\* that build the file
SourceFileJustCreated(task, typeInfos) == EmptyText

\* the text of the source file of a task when the task calls project.save():
\* createSourceFile and every building statement run before it, without an
\* await in between
SourceFileAtSave(task, typeInfos) == CompleteText(task, typeInfos)

(***************************************************************************)
(* State.                                                                  *)
(***************************************************************************)
VARIABLES
    disk,          \* path -> content of the artifact, Absent when there is none
    root,          \* what crawling the root directory does
    options,       \* options of the SchemaGenerator instance
    stage,         \* where Generate is
    crawled,       \* paths as enumerated by the latest crawl
    files,         \* FileInfo[] returned by discoverFiles
    sortedFiles,   \* processFiles: the files sorted by path
    settled,       \* parallel mode: indexes of the tasks, in completion order
    results,       \* ProcessingResult[] of processInParallel / processSequentially
    schemaMap,     \* Map<string, Schema> returned by processFiles
    mergedSchema,  \* schema returned by mergeSchemas, Null before
    outputFile,    \* content of validation.schema.json, Null when absent
    thrown,        \* error Generate rejected with, NoError when none
    console,       \* lines printed by console.warn / console.error / the
                   \* "No types found" console.log of the current run
    previous,      \* mode and result of the previous run, and whether the
                   \* crawl enumerated its files in code-unit order
    fileCache,     \* FileDiscovery.fileCache
    cacheFile,     \* the persisted file-hashes.json and its directory
    since,         \* what happened since the latest run began: the paths whose
                   \* content changed, "cache file corrupted", "clearCache",
                   \* "clearCache threw"
    cacheWrites,   \* what the current run wrote to the cache file, write by write
    runs,          \* number of runs started
    fresh,         \* the current run is the first one of its SchemaGenerator
    schemaDefinition, \* symbols written to SchemaDefinition.ts, Null when absent
    project,       \* CodeGenerator.project: helper file -> its source file in
                   \* the shared ts-morph project, Null when not created
    tasks,         \* the three tasks of the Promise.all of Generate, by position:
                   \* where the task is, the source files its save has still
                   \* to write and those it wrote
    helperFiles    \* helper file -> its content on disk, Null when absent

vars == <<project, tasks, helperFiles, disk, root, since, cacheWrites, runs, fresh, schemaDefinition, options, stage,
          crawled, files, sortedFiles, settled, results, schemaMap, mergedSchema,
          outputFile, thrown, console, previous, fileCache, cacheFile>>

\* validateSchemaCompatibility has not been called (direct calls only)
Pending == [name |-> "pending"]

NoRun == [parallel |-> FALSE, inOrder |-> TRUE, outcome |-> "none",
          error |-> NoError, schema |-> Null,
          cacheEnabled |-> FALSE, cacheWrites |-> <<>>, since |-> {}]

DefaultOptions == [parallel |-> TRUE, verbose |-> FALSE, cacheEnabled |-> FALSE,
                   helpers |-> TRUE]

\* options the orchestrator is run with
GeneratorOptions == [parallel : BOOLEAN, verbose : BOOLEAN, cacheEnabled : {FALSE},
                     helpers : {TRUE}]

Present(d) == {p \in Paths : d[p] # Absent}

\* every order in which the file system may enumerate the files of S
Enumerations(S) == {q \in [1..Cardinality(S) -> S] : Range(q) = S}

\* what the crawl of the root can yield
\* a root that cannot be read makes the crawl reject or, with the crawler
\* suppressing errors, resolve to no file: which one is fixed by the setup
Roots == {"readable", "unreadable: crawl rejects", "unreadable: crawl finds nothing"}
rootReadable == root = "readable"

CrawlOutcomes ==
    IF rootReadable
    THEN {[threw |-> FALSE, files |-> q] : q \in Enumerations(Present(disk))}
    ELSE {[threw |-> (root = "unreadable: crawl rejects"), files |-> <<>>]}

\* new Project(...): no source file yet
NoProject == [f \in HelperFiles |-> Null]

\* Generate has not reached the Promise.all
NoTasks == [t \in 1..Len(HelperTasks) |->
               [state |-> "not called", unsaved |-> {}, wrote |-> {}]]

\* an output directory without helper files
NoHelperFiles == [f \in HelperFiles |-> Null]

IoOutcomes == {"ok", "stat", "mkdir", "write", "truncated"}

Init ==
    /\ root \in Roots
    /\ disk \in [Paths -> Contents \cup {Absent}]
    /\ ~rootReadable => Present(disk) = {}
    /\ options = DefaultOptions
    /\ stage = "Idle"
    /\ crawled = <<>>
    /\ files = <<>>
    /\ sortedFiles = <<>>
    /\ settled = <<>>
    /\ results = <<>>
    /\ schemaMap = <<>>
    /\ mergedSchema = Null
    /\ outputFile = Null
    /\ thrown = NoError
    /\ console = <<>>
    /\ previous = NoRun
    /\ fileCache = <<>>
    /\ cacheFile = NoCacheFile
    /\ since = {}
    /\ cacheWrites = <<>>
    /\ runs = 0
    /\ fresh = TRUE
    /\ schemaDefinition = Null
    /\ project = NoProject
    /\ tasks = NoTasks
    /\ helperFiles = NoHelperFiles

(***************************************************************************)
(* SchemaGenerator.Generate, one action per step.                          *)
(***************************************************************************)
\* console.error(`Schema generation failed: ${formatError(error, verbose)}`)
ErrorLine(error, verbose) ==
    Line("error",
         IF verbose /\ error.name = "DuplicateSymbolError"
         THEN "detailed message" ELSE error.code,
         error.message[1], 0)

\* how the run in the current state ended
RunResult ==
    [parallel |-> options.parallel, inOrder |-> (crawled = SortFiles(crawled)),
     outcome |-> IF stage = "Failed" THEN "rejected" ELSE "resolved",
     error |-> thrown, schema |-> mergedSchema,
     cacheEnabled |-> options.cacheEnabled, cacheWrites |-> cacheWrites,
     since |-> since]

\* new SchemaGenerator(o).Generate() up to the call of discoverFiles
StartGenerate(o) ==
    /\ stage \in {"Idle", "Done", "Failed"}
    /\ previous' = IF stage = "Idle" THEN previous ELSE RunResult
    /\ options' = o
    /\ fileCache' = IF o.cacheEnabled THEN loadCache(cacheFile) ELSE <<>>
    /\ stage' = "Discovering"
    /\ crawled' = <<>>
    /\ files' = <<>>
    /\ sortedFiles' = <<>>
    /\ settled' = <<>>
    /\ results' = <<>>
    /\ schemaMap' = <<>>
    /\ mergedSchema' = Null
    /\ thrown' = NoError
    /\ console' = IF o.cacheEnabled THEN loadCacheWarnings(cacheFile) ELSE <<>>
    /\ since' = {}
    /\ cacheWrites' = <<>>
    /\ fresh' = TRUE
    /\ UNCHANGED <<project, tasks, helperFiles, disk, root, schemaDefinition, outputFile, cacheFile>>

\* await this.fileDiscovery.discoverFiles(), then the start of processFiles
Discover ==
    /\ stage = "Discovering"
    /\ \E crawl \in CrawlOutcomes :
       \E io \in IF options.cacheEnabled THEN IoOutcomes ELSE {"ok"} :
         LET d == discoverFiles(crawl, options.cacheEnabled, disk, io, fileCache, cacheFile)
         IN  /\ crawled' = crawl.files
             /\ fileCache' = d.fileCache
             /\ cacheFile' = d.cacheFile
             /\ cacheWrites' = cacheWrites \o d.writes
             /\ IF d.error # NoError
                THEN /\ stage' = "Failed"
                     /\ thrown' = d.error
                     /\ console' = Append(console, ErrorLine(d.error, options.verbose))
                     /\ UNCHANGED <<files, sortedFiles>>
                ELSE /\ stage' = "Extracting"
                     /\ files' = d.files
                     /\ sortedFiles' = SortByPath(d.files)
                     /\ UNCHANGED <<thrown, console>>
    /\ UNCHANGED <<project, tasks, helperFiles, disk, root, since, runs, fresh, schemaDefinition, options, settled, results,
                   schemaMap, mergedSchema, outputFile, previous>>

\* parallel mode: the task of sortedFiles[index] completes
SettleTask(index) ==
    /\ stage = "Extracting"
    /\ options.parallel
    /\ index \in 1..Len(sortedFiles)
    /\ index \notin Range(settled)
    /\ settled' = Append(settled, index)
    /\ UNCHANGED <<project, tasks, helperFiles, disk, root, since, cacheWrites, runs, fresh, schemaDefinition, options, stage, crawled, files, sortedFiles,
                   results, schemaMap, mergedSchema, outputFile, thrown, console,
                   previous, fileCache, cacheFile>>

\* sequential mode: one iteration of the loop of processSequentially
ProcessNext ==
    /\ stage = "Extracting"
    /\ ~options.parallel
    /\ Len(results) < Len(sortedFiles)
    /\ LET file == sortedFiles[Len(results) + 1]
       IN  results' = Append(results, ResultOf(file, processFile(file, disk)))
    /\ UNCHANGED <<project, tasks, helperFiles, disk, root, since, cacheWrites, runs, fresh, schemaDefinition, options, stage, crawled, files, sortedFiles,
                   settled, schemaMap, mergedSchema, outputFile, thrown, console,
                   previous, fileCache, cacheFile>>

\* the early return on an empty map left out
NoTypesFoundUnchecked(map) == FALSE

\* if (schemaMap.size === 0) { console.log("No types found ..."); return; }
NoTypesFound(map) == Len(map) = 0

\* every task is done: processFiles consolidates and returns, Generate
\* stops when the map is empty
FinishProcessFiles ==
    /\ stage = "Extracting"
    /\ IF options.parallel THEN Len(settled) = Len(sortedFiles)
                           ELSE Len(results) = Len(sortedFiles)
    /\ results' = IF options.parallel
                  THEN processInParallel(sortedFiles, settled, disk)
                  ELSE results
    /\ LET c == consolidateSchemas(results', options.verbose)
       IN  /\ schemaMap' = c.schemaMap
           /\ IF NoTypesFound(c.schemaMap)
              THEN /\ console' = console \o c.console
                                 \o <<Line("log", "No types found to generate schemas for", "", 0)>>
                   /\ stage' = "Done"
              ELSE /\ console' = console \o c.console
                   /\ stage' = "Validating"
    /\ UNCHANGED <<project, tasks, helperFiles, disk, root, since, cacheWrites, runs, fresh, schemaDefinition, options, crawled, files, sortedFiles, settled,
                   mergedSchema, outputFile, thrown, previous, fileCache, cacheFile>>

\* the result of validateSchemaCompatibility ignored: the run goes on to merge
ValidateIgnoringError ==
    /\ stage = "Validating"
    /\ stage' = "Merging"
    /\ UNCHANGED <<project, tasks, helperFiles, disk, root, since, cacheWrites, runs, fresh, schemaDefinition, options,
                   crawled, files, sortedFiles, settled, results, schemaMap, mergedSchema,
                   outputFile, thrown, console, previous, fileCache, cacheFile>>

\* this.schemaProcessor.validateSchemaCompatibility(schemaMap)
Validate ==
    /\ stage = "Validating"
    /\ LET e == validateSchemaCompatibility(schemaMap)
       IN  IF e # NoError
           THEN /\ stage' = "Failed"
                /\ thrown' = e
                /\ console' = Append(console, ErrorLine(e, options.verbose))
           ELSE /\ stage' = "Merging"
                /\ UNCHANGED <<thrown, console>>
    /\ UNCHANGED <<project, tasks, helperFiles, disk, root, since, cacheWrites, runs, fresh, schemaDefinition, options, crawled, files, sortedFiles, settled,
                   results, schemaMap, mergedSchema, outputFile, previous, fileCache,
                   cacheFile>>

\* mergeSchemas and writeJsonSchema, then generateSchemaDefinition unless
\* helpers === false (the output directory is writable)
Merge ==
    /\ stage = "Merging"
    /\ mergedSchema' = mergeSchemas(schemaMap)
    /\ outputFile' = mergedSchema'
    /\ schemaDefinition' = IF options.helpers
                           THEN writeSchemaDefinitionFile(extractTypeInfo(schemaMap, disk))
                           ELSE schemaDefinition
    /\ stage' = "Done"
    /\ UNCHANGED <<project, tasks, helperFiles, disk, root, since, cacheWrites, runs, fresh, options, crawled, files, sortedFiles, settled,
                   results, schemaMap, thrown, console, previous, fileCache, cacheFile>>

Next ==
    \/ \E o \in GeneratorOptions : StartGenerate(o) /\ UNCHANGED runs
    \/ Discover
    \/ \E index \in 1..Cardinality(Paths) : SettleTask(index)
    \/ ProcessNext
    \/ FinishProcessFiles
    \/ Validate
    \/ Merge

Spec == Init /\ [][Next]_vars

(***************************************************************************)
(* Runs with the cache, between which the artifacts and the cache file     *)
(* change and clearCache is called.                                        *)
(***************************************************************************)
\* the artifacts of the runs with the cache and what they may contain
CachePaths == {"e+acute.ts", "eacute.ts"}
CacheContents == {Declares("Zebra", Number1), Declares("apple", Number1)}

\* options of the runs with the cache
CacheOptions == [parallel : {FALSE}, verbose : {FALSE}, cacheEnabled : BOOLEAN,
                 helpers : {TRUE}]

InitCache ==
    /\ root = "readable"
    /\ disk \in [Paths -> CacheContents \cup {Absent}]
    /\ \A p \in Paths \ CachePaths : disk[p] = Absent
    /\ options = DefaultOptions
    /\ stage = "Idle"
    /\ crawled = <<>>
    /\ files = <<>>
    /\ sortedFiles = <<>>
    /\ settled = <<>>
    /\ results = <<>>
    /\ schemaMap = <<>>
    /\ mergedSchema = Null
    /\ outputFile = Null
    /\ thrown = NoError
    /\ console = <<>>
    /\ previous = NoRun
    /\ fileCache = <<>>
    /\ cacheFile = NoCacheFile
    /\ since = {}
    /\ cacheWrites = <<>>
    /\ runs = 0
    /\ fresh = TRUE
    /\ schemaDefinition = Null
    /\ project = NoProject
    /\ tasks = NoTasks
    /\ helperFiles = NoHelperFiles

\* between two runs an artifact is written, created or deleted
EditFile(path, content) ==
    /\ stage \in {"Done", "Failed"}
    /\ runs < MaxRuns
    /\ path \in CachePaths
    /\ path \notin since
    /\ content # disk[path]
    /\ disk' = [disk EXCEPT ![path] = content]
    /\ since' = since \cup {path}
    /\ UNCHANGED <<project, tasks, helperFiles, root, cacheWrites, runs, fresh, schemaDefinition, options, stage, crawled, files,
                   sortedFiles, settled, results, schemaMap, mergedSchema, outputFile,
                   thrown, console, previous, fileCache, cacheFile>>

\* between two runs the cache file is damaged
CorruptCacheFile ==
    /\ stage \in {"Done", "Failed"}
    /\ runs < MaxRuns
    /\ cacheFile.exists
    /\ ~cacheFile.corrupt
    /\ cacheFile' = [cacheFile EXCEPT !.corrupt = TRUE]
    /\ since' = since \cup {"cache file corrupted"}
    /\ UNCHANGED <<project, tasks, helperFiles, disk, root, cacheWrites, runs, fresh, schemaDefinition, options, stage, crawled,
                   files, sortedFiles, settled, results, schemaMap, mergedSchema,
                   outputFile, thrown, console, previous, fileCache>>

\* generator.clearCache() between two runs
CallClearCache ==
    /\ stage \in {"Idle", "Done", "Failed"}
    /\ runs < MaxRuns
    /\ "clearCache" \notin since
    /\ \E io \in {"ok", "unlink"} :
         LET c == clearCache(fileCache, cacheFile, io)
         IN  /\ fileCache' = c.fileCache
             /\ cacheFile' = c.cacheFile
             /\ since' = since \cup {IF c.threw THEN "clearCache threw" ELSE "clearCache"}
    /\ UNCHANGED <<project, tasks, helperFiles, disk, root, cacheWrites, runs, fresh, schemaDefinition, options, stage, crawled,
                   files, sortedFiles, settled, results, schemaMap, mergedSchema,
                   outputFile, thrown, console, previous>>

\* one more run, with or without the cache
StartCachedGenerate(o) ==
    /\ runs < MaxRuns
    /\ runs' = runs + 1
    /\ StartGenerate(o)

\* Generate() called once more on the SchemaGenerator of the latest run:
\* the same options, no constructor and so no loadCache
Regenerate ==
    /\ stage \in {"Done", "Failed"}
    /\ runs < MaxRuns
    /\ runs' = runs + 1
    /\ fresh' = FALSE
    /\ previous' = RunResult
    /\ stage' = "Discovering"
    /\ crawled' = <<>>
    /\ files' = <<>>
    /\ sortedFiles' = <<>>
    /\ settled' = <<>>
    /\ results' = <<>>
    /\ schemaMap' = <<>>
    /\ mergedSchema' = Null
    /\ thrown' = NoError
    /\ console' = <<>>
    /\ since' = {}
    /\ cacheWrites' = <<>>
    /\ UNCHANGED <<project, tasks, helperFiles, disk, root, options, fileCache, schemaDefinition, outputFile,
                   cacheFile>>

NextCache ==
    \/ \E o \in CacheOptions : StartCachedGenerate(o)
    \/ Regenerate
    \/ Discover
    \/ ProcessNext
    \/ FinishProcessFiles
    \/ Validate
    \/ Merge
    \/ \E path \in CachePaths : \E content \in CacheContents \cup {Absent} :
          EditFile(path, content)
    \/ CorruptCacheFile
    \/ CallClearCache

SpecCache == InitCache /\ [][NextCache]_vars

\* ---------------------------------------------------------------------------
\* Runs that fail after discovery: consecutive runs, each on a new
\* SchemaGenerator, over two artifacts that are edited between the runs and
\* may be malformed or declare the same symbol differently.
\* ---------------------------------------------------------------------------

RunContents == {Declares("Zebra", Number1), Declares("Zebra", Number2), Malformed}

RunOptions == [parallel : {FALSE}, verbose : {FALSE}, cacheEnabled : BOOLEAN,
               helpers : {TRUE}]

InitRuns ==
    /\ root = "readable"
    /\ disk \in [Paths -> RunContents \cup {Absent}]
    /\ \A p \in Paths \ CachePaths : disk[p] = Absent
    /\ options = DefaultOptions
    /\ stage = "Idle"
    /\ crawled = <<>>
    /\ files = <<>>
    /\ sortedFiles = <<>>
    /\ settled = <<>>
    /\ results = <<>>
    /\ schemaMap = <<>>
    /\ mergedSchema = Null
    /\ outputFile = Null
    /\ thrown = NoError
    /\ console = <<>>
    /\ previous = NoRun
    /\ fileCache = <<>>
    /\ cacheFile = NoCacheFile
    /\ since = {}
    /\ cacheWrites = <<>>
    /\ runs = 0
    /\ fresh = TRUE
    /\ schemaDefinition = Null
    /\ project = NoProject
    /\ tasks = NoTasks
    /\ helperFiles = NoHelperFiles

NextRuns ==
    \/ \E o \in RunOptions : StartCachedGenerate(o)
    \/ Discover
    \/ ProcessNext
    \/ FinishProcessFiles
    \/ Validate
    \/ Merge
    \/ \E path \in CachePaths : \E content \in RunContents \cup {Absent} :
          EditFile(path, content)

SpecRuns == InitRuns /\ [][NextRuns]_vars

(***************************************************************************)
(* Direct calls of the public methods validateSchemaCompatibility and      *)
(* mergeSchemas on an arbitrary fragment map.                              *)
(***************************************************************************)
\* the Map with keys ps (in insertion order) whose i-th fragment has the
\* dialect ds[i] and the definitions os[i]
MapOf(ps, ds, os) ==
    [i \in 1..Len(ps) |-> <<ps[i], [schema |-> ds[i], definitions |-> os[i]]>>]

RECURSIVE TotalDefs(_)
\* number of definitions in a sequence of definitions objects
TotalDefs(os) ==
    IF os = <<>> THEN 0 ELSE Len(Head(os)) + TotalDefs(Tail(os))

\* any Map of at most MaxFragments fragments with at most MaxDefs definitions
\* in all, paths in any insertion order
InitConsolidate ==
    /\ \E ps \in SeqsNoDup(Paths, MaxFragments) :
       \E os \in [1..Len(ps) -> DefinitionObjects(MaxDefs)] :
          /\ TotalDefs(os) <= MaxDefs
          /\ \E ds \in [1..Len(ps) -> Dialects] : schemaMap = MapOf(ps, ds, os)
    /\ stage = "Caller"
    /\ thrown = Pending
    /\ mergedSchema = Null
    /\ disk = [p \in Paths |-> Absent]
    /\ root = "readable"
    /\ options = DefaultOptions
    /\ crawled = <<>>
    /\ files = <<>>
    /\ sortedFiles = <<>>
    /\ settled = <<>>
    /\ results = <<>>
    /\ outputFile = Null
    /\ console = <<>>
    /\ previous = NoRun
    /\ fileCache = <<>>
    /\ cacheFile = NoCacheFile
    /\ since = {}
    /\ cacheWrites = <<>>
    /\ runs = 0
    /\ fresh = TRUE
    /\ schemaDefinition = Null
    /\ project = NoProject
    /\ tasks = NoTasks
    /\ helperFiles = NoHelperFiles

CallValidate ==
    /\ stage = "Caller"
    /\ thrown = Pending
    /\ thrown' = validateSchemaCompatibility(schemaMap)
    /\ UNCHANGED <<project, tasks, helperFiles, disk, root, since, cacheWrites, runs, fresh, schemaDefinition, options, stage, crawled, files, sortedFiles,
                   settled, results, schemaMap, mergedSchema, outputFile, console,
                   previous, fileCache, cacheFile>>

CallMerge ==
    /\ stage = "Caller"
    /\ mergedSchema = Null
    /\ mergedSchema' = mergeSchemas(schemaMap)
    /\ UNCHANGED <<project, tasks, helperFiles, disk, root, since, cacheWrites, runs, fresh, schemaDefinition, options, stage, crawled, files, sortedFiles,
                   settled, results, schemaMap, thrown, outputFile, console,
                   previous, fileCache, cacheFile>>

NextConsolidate == CallValidate \/ CallMerge

SpecConsolidate == InitConsolidate /\ [][NextConsolidate]_vars

\* ---------------------------------------------------------------------------
\* processFiles called directly on a list of files in any order.
\* ---------------------------------------------------------------------------

ProcessorOptions == [parallel : BOOLEAN, verbose : BOOLEAN, cacheEnabled : {FALSE},
                     helpers : {TRUE}]

InitProcess ==
    /\ root = "readable"
    /\ disk \in [Paths -> Contents \cup {Absent}]
    /\ options \in ProcessorOptions
    /\ \E order \in Enumerations(Present(disk)) :
          files = [i \in 1..Len(order) |-> [path |-> order[i], hash |-> NoHash]]
    /\ sortedFiles = SortByPath(files)
    /\ stage = "Extracting"
    /\ crawled = <<>>
    /\ settled = <<>>
    /\ results = <<>>
    /\ schemaMap = <<>>
    /\ mergedSchema = Null
    /\ outputFile = Null
    /\ thrown = NoError
    /\ console = <<>>
    /\ previous = NoRun
    /\ fileCache = <<>>
    /\ cacheFile = NoCacheFile
    /\ since = {}
    /\ cacheWrites = <<>>
    /\ runs = 0
    /\ fresh = TRUE
    /\ schemaDefinition = Null
    /\ project = NoProject
    /\ tasks = NoTasks
    /\ helperFiles = NoHelperFiles

NextProcess ==
    \/ \E index \in 1..Cardinality(Paths) : SettleTask(index)
    \/ ProcessNext
    \/ FinishProcessFiles

SpecProcess == InitProcess /\ [][NextProcess]_vars

\* ---------------------------------------------------------------------------
\* Helper generation step by step: the Promise.all of Generate over the three
\* tasks that share this.project.  A task runs from its call to its
\* `await this.project.save()` without giving up control; what save does
\* (ts-morph) is taken as: at some moment after the call it collects the
\* source files of the project that are not saved, writes each of them, in
\* any order and interleaved with the other saves, and resolves.
\* ---------------------------------------------------------------------------

\* a helper file left by an earlier run
StaleText == [stale |-> TRUE]

InitHelpers ==
    /\ root = "readable"
    /\ disk \in [Paths -> CacheContents \cup {Absent}]
    /\ \A p \in Paths \ CachePaths : disk[p] = Absent
    /\ Present(disk) # {}
    /\ options = DefaultOptions
    /\ crawled = SortFiles(CHOOSE order \in Enumerations(Present(disk)) : TRUE)
    /\ files = [i \in 1..Len(crawled) |-> [path |-> crawled[i], hash |-> NoHash]]
    /\ sortedFiles = SortByPath(files)
    /\ settled = [i \in 1..Len(files) |-> i]
    /\ results = processInParallel(sortedFiles, settled, disk)
    /\ schemaMap = consolidateSchemas(results, options.verbose).schemaMap
    /\ mergedSchema = mergeSchemas(schemaMap)
    /\ outputFile = mergedSchema
    /\ stage = "Helpers"
    /\ thrown = NoError
    /\ console = <<>>
    /\ previous = NoRun
    /\ fileCache = <<>>
    /\ cacheFile = NoCacheFile
    /\ since = {}
    /\ cacheWrites = <<>>
    /\ runs = 1
    /\ fresh = TRUE
    /\ schemaDefinition \in {Null, StaleText}
    /\ project = NoProject
    /\ tasks = NoTasks
    /\ helperFiles = [f \in HelperFiles |-> schemaDefinition]

\* the array of the Promise.all is evaluated: the task is called and runs up
\* to its await of project.save(), the tasks before it having been called
CallTask(task) ==
    /\ stage = "Helpers"
    /\ tasks[task].state = "not called"
    /\ \A earlier \in 1..(task - 1) : tasks[earlier].state # "not called"
    /\ project' = [project EXCEPT ![OutputFileOf(task)] =
                      [text |-> SourceFileAtSave(task, extractTypeInfo(schemaMap, disk)),
                       saved |-> FALSE]]
    /\ tasks' = [tasks EXCEPT ![task].state = "saving"]
    /\ UNCHANGED <<helperFiles, disk, root, since, cacheWrites, runs, fresh, schemaDefinition,
                   options, stage, crawled, files, sortedFiles, settled, results,
                   schemaMap, mergedSchema, outputFile, thrown, console, previous,
                   fileCache, cacheFile>>

\* the save of the task collects the source files that are not saved
CollectUnsaved(task) ==
    /\ stage = "Helpers"
    /\ tasks[task].state = "saving"
    /\ tasks' = [tasks EXCEPT ![task] =
                    [state |-> "writing",
                     unsaved |-> {f \in HelperFiles :
                                    project[f] # Null /\ ~project[f].saved},
                     wrote |-> {}]]
    /\ UNCHANGED <<project, helperFiles, disk, root, since, cacheWrites, runs, fresh,
                   schemaDefinition, options, stage, crawled, files, sortedFiles,
                   settled, results, schemaMap, mergedSchema, outputFile, thrown,
                   console, previous, fileCache, cacheFile>>

\* the save of the task writes one of the source files it collected
WriteSourceFile(task, file) ==
    /\ stage = "Helpers"
    /\ tasks[task].state = "writing"
    /\ file \in tasks[task].unsaved
    /\ helperFiles' = [helperFiles EXCEPT ![file] = project[file].text]
    /\ project' = [project EXCEPT ![file].saved = TRUE]
    /\ tasks' = [tasks EXCEPT ![task].unsaved = @ \ {file},
                              ![task].wrote = @ \cup {file}]
    /\ UNCHANGED <<disk, root, since, cacheWrites, runs, fresh, schemaDefinition, options,
                   stage, crawled, files, sortedFiles, settled, results, schemaMap,
                   mergedSchema, outputFile, thrown, console, previous, fileCache,
                   cacheFile>>

\* every write of the save is done: the promise of the task resolves
ResolveTask(task) ==
    /\ stage = "Helpers"
    /\ tasks[task].state = "writing"
    /\ tasks[task].unsaved = {}
    /\ tasks' = [tasks EXCEPT ![task].state = "resolved"]
    /\ UNCHANGED <<project, helperFiles, disk, root, since, cacheWrites, runs, fresh,
                   schemaDefinition, options, stage, crawled, files, sortedFiles,
                   settled, results, schemaMap, mergedSchema, outputFile, thrown,
                   console, previous, fileCache, cacheFile>>

\* the Promise.all resolves and with it Generate
ResolveGenerate ==
    /\ stage = "Helpers"
    /\ \A task \in 1..Len(HelperTasks) : tasks[task].state = "resolved"
    /\ stage' = "Done"
    /\ schemaDefinition' = helperFiles["SchemaDefinition.ts"]
    /\ UNCHANGED <<project, tasks, helperFiles, disk, root, since, cacheWrites, runs, fresh,
                   options, crawled, files, sortedFiles, settled, results, schemaMap,
                   mergedSchema, outputFile, thrown, console, previous, fileCache,
                   cacheFile>>

NextHelpers ==
    \/ \E task \in 1..Len(HelperTasks) : CallTask(task)
    \/ \E task \in 1..Len(HelperTasks) : CollectUnsaved(task)
    \/ \E task \in 1..Len(HelperTasks) : \E file \in HelperFiles :
          WriteSourceFile(task, file)
    \/ \E task \in 1..Len(HelperTasks) : ResolveTask(task)
    \/ ResolveGenerate

SpecHelpers == InitHelpers /\ [][NextHelpers]_vars

(***************************************************************************)
(* Properties.                                                             *)
(***************************************************************************)
Finished == stage \in {"Done", "Failed"}

\* symbols declared by the fragments of a map
SymbolsIn(map) == UNION {Range(Keys(map[i][2].definitions)) : i \in 1..Len(map)}

\* indexes of the fragments of a map that declare the symbol
Declaring(map, symbol) == {i \in 1..Len(map) : Has(map[i][2].definitions, symbol)}

NodeAt(map, i, symbol) == Get(map[i][2].definitions, symbol)

\* some symbol is declared by two fragments with structurally different nodes
StructuralConflict(map) ==
    \E symbol \in SymbolsIn(map) : \E i, j \in Declaring(map, symbol) :
        ~StructurallyEqual(NodeAt(map, i, symbol), NodeAt(map, j, symbol))

\* C3: the definition keys of the schema returned by mergeSchemas are the
\* symbols of the fragments, each once, in strictly ascending code-unit
\* (ordinal) order, whatever the order of the fragments in the map and of the
\* symbols inside a fragment.
C3_KeysInOrdinalOrder ==
    mergedSchema # Null =>
        LET keys == Keys(mergedSchema.definitions)
        IN  /\ \A i, j \in 1..Len(keys) : i < j => OrdinalBefore(keys[i], keys[j])
            /\ Range(keys) = SymbolsIn(schemaMap)

\* the fragment first in path order declares apple, the other one Zebra: the
\* keys were inserted as apple, Zebra and come out as Zebra, apple
C3_Witness ==
    /\ stage = "Caller"
    /\ mergedSchema # Null
    /\ Len(schemaMap) = 2
    /\ Keys(SortedEntries(schemaMap)[1][2].definitions) = <<"apple">>
    /\ Keys(SortedEntries(schemaMap)[2][2].definitions) = <<"Zebra">>
    /\ Keys(mergedSchema.definitions) = <<"Zebra", "apple">>

\* C4: when a symbol is declared by two or more fragments and every symbol
\* has structurally equal nodes in all the fragments that declare it,
\* validateSchemaCompatibility raises no error and the merged schema has each
\* symbol exactly once, mapped to that node.
C4_IdenticalDuplicatesPass ==
    ( /\ thrown # Pending
      /\ mergedSchema # Null
      /\ \E symbol \in SymbolsIn(schemaMap) : Cardinality(Declaring(schemaMap, symbol)) >= 2
      /\ ~StructuralConflict(schemaMap) )
    => /\ thrown = NoError
       /\ \A symbol \in SymbolsIn(schemaMap) :
            /\ Cardinality({i \in 1..Len(mergedSchema.definitions) :
                               mergedSchema.definitions[i][1] = symbol}) = 1
            /\ \A i \in Declaring(schemaMap, symbol) :
                 Get(mergedSchema.definitions, symbol) = NodeAt(schemaMap, i, symbol)

\* C5: when two extracted fragments declare the same symbol with
\* structurally different nodes, the run fails: Generate rejects with a
\* DuplicateSymbolError for a symbol in conflict that carries the two nodes.
C5_ConflictRejects ==
    (Finished /\ StructuralConflict(schemaMap))
    => /\ stage = "Failed"
       /\ thrown.name = "DuplicateSymbolError"
       /\ thrown.existingDefinition # thrown.newDefinition
       /\ \E i, j \in Declaring(schemaMap, thrown.symbol) :
            /\ NodeAt(schemaMap, i, thrown.symbol) = thrown.existingDefinition
            /\ NodeAt(schemaMap, j, thrown.symbol) = thrown.newDefinition

\* the source paths a DuplicateSymbolError carries: its file field (its
\* message names the symbol only)
PathsNamed(error) == {error.file}

\* path of the fragment, first in path order, that declares the symbol
FirstRecorded(map, symbol) ==
    LET entries == SortedEntries(map)
    IN  entries[CHOOSE i \in 1..Len(entries) :
            /\ Has(entries[i][2].definitions, symbol)
            /\ \A j \in 1..(i - 1) : ~Has(entries[j][2].definitions, symbol)][1]

\* C6 as stated: the DuplicateSymbolError names both the path of the artifact
\* whose definition was recorded first and the path of the artifact whose
\* definition conflicts with it.
C6_NamesBothPaths ==
    thrown.name = "DuplicateSymbolError" =>
        \E conflicting \in PathsNamed(thrown) :
            /\ Has(schemaMap, conflicting)
            /\ Has(Get(schemaMap, conflicting).definitions, thrown.symbol)
            /\ Get(Get(schemaMap, conflicting).definitions, thrown.symbol) = thrown.newDefinition
            /\ FirstRecorded(schemaMap, thrown.symbol) \in PathsNamed(thrown)

\* C6 amended: the DuplicateSymbolError carries one source path, in its file
\* field: the path of the fragment whose definition (newDefinition) failed
\* the comparison.  The definition it failed against (existingDefinition)
\* comes from a fragment that is not later in path order, whose path the
\* error does not carry.
C6_NamesConflictingPath ==
    thrown.name = "DuplicateSymbolError" =>
        /\ DOMAIN thrown = {"name", "code", "message", "symbol", "file",
                            "existingDefinition", "newDefinition"}
        /\ thrown.message[2] = thrown.symbol
        /\ Has(schemaMap, thrown.file)
        /\ Has(Get(schemaMap, thrown.file).definitions, thrown.symbol)
        /\ Get(Get(schemaMap, thrown.file).definitions, thrown.symbol) = thrown.newDefinition
        /\ thrown.existingDefinition \in Nodes =>
             \E i \in Declaring(schemaMap, thrown.symbol) :
                /\ schemaMap[i][1] # thrown.file
                /\ schemaMap[i][1] \notin PathsNamed(thrown)
                /\ localeCompare(schemaMap[i][1], thrown.file) <= 0
                /\ NodeAt(schemaMap, i, thrown.symbol) = thrown.existingDefinition

\* two fragments in conflict: the error names the later one only
C6_Witness ==
    /\ stage = "Caller"
    /\ thrown.name = "DuplicateSymbolError"
    /\ Len(schemaMap) = 2
    /\ thrown.existingDefinition \in Nodes
    /\ thrown.file # FirstRecorded(schemaMap, thrown.symbol)

\* two runs ended the same way: same outcome, same error, same schema
SameResult(a, b) == a.outcome = b.outcome /\ a.error = b.error /\ a.schema = b.schema

\* C1: on the same artifacts a run with parallel extraction and a run with
\* sequential extraction end in the same result (the same merged schema,
\* key order included, or the same failure), whatever the order in which the
\* parallel tasks complete.
C1_ModesAgree ==
    (Finished /\ previous.outcome # "none" /\ previous.parallel # options.parallel)
    => SameResult(previous, RunResult)

\* a parallel run whose tasks completed out of submission order, after a
\* sequential run, both with a merged schema
C1_Witness ==
    /\ stage = "Done"
    /\ options.parallel
    /\ Len(settled) >= 2
    /\ settled[1] > settled[2]
    /\ mergedSchema # Null
    /\ previous.outcome = "resolved"
    /\ ~previous.parallel

\* C2: for fixed artifact contents every run ends in the same result as the
\* run before it, whatever the order in which the crawl enumerated the files
\* in either run.
C2_EnumerationOrderIrrelevant ==
    (Finished /\ previous.outcome # "none") => SameResult(previous, RunResult)

\* two runs over the two spellings of e-acute, which localeCompare does not
\* order and which declare different nodes: the first run enumerated them in
\* code-unit order, the second one did not
C2_Witness ==
    /\ stage = "Done"
    /\ mergedSchema # Null
    /\ previous.outcome = "resolved"
    /\ previous.inOrder
    /\ crawled # SortFiles(crawled)
    /\ disk["e+acute.ts"].kind = "source"
    /\ disk["eacute.ts"].kind = "source"
    /\ disk["e+acute.ts"] # disk["eacute.ts"]

\* artifacts of the batch whose extraction fails / succeeds
FailedArtifacts == {p \in Range(crawled) : disk[p] = Malformed}
ValidArtifacts == {p \in Range(crawled) : disk[p].kind = "source"}
PartialFailure == FailedArtifacts # {} /\ ValidArtifacts # {}
AllFailed == FailedArtifacts # {} /\ ValidArtifacts = {}

\* processFiles has returned
Extracted == stage \in {"Validating", "Merging", "Done"}
             \/ (stage = "Failed" /\ thrown.name = "DuplicateSymbolError")

\* the merged schema has exactly the definitions of the valid artifacts
HasDefinitionsOfValid ==
    /\ mergedSchema # Null
    /\ Range(Keys(mergedSchema.definitions)) =
          UNION {Range(Keys(disk[p].fragment.definitions)) : p \in ValidArtifacts}
    /\ \A i \in 1..Len(mergedSchema.definitions) :
          \E p \in ValidArtifacts :
             /\ Has(disk[p].fragment.definitions, mergedSchema.definitions[i][1])
             /\ Get(disk[p].fragment.definitions, mergedSchema.definitions[i][1])
                   = mergedSchema.definitions[i][2]

\* C7 as stated: when some but not all artifacts fail extraction, the run
\* succeeds and the schema has exactly the definitions of the valid ones.
C7_PartialFailureSucceeds ==
    (Finished /\ PartialFailure)
    => stage = "Done" /\ thrown = NoError /\ HasDefinitionsOfValid

\* C7 amended: when some but not all artifacts fail extraction, in either
\* mode, the failure is captured and not thrown, every artifact is processed
\* and the fragment map holds exactly the artifacts whose extraction
\* succeeded; the run then fails only if validateSchemaCompatibility raises a
\* DuplicateSymbolError on these fragments, and when it succeeds the schema
\* has exactly their definitions.
C7_PartialFailureCaptured ==
    (PartialFailure /\ stage \in {"Validating", "Merging", "Done", "Failed"})
    => /\ Len(results) = Len(crawled)
       /\ Range(Keys(schemaMap)) = ValidArtifacts
       /\ \A i \in 1..Len(schemaMap) : schemaMap[i][2] = disk[schemaMap[i][1]].fragment
       /\ stage = "Failed" =>
            /\ thrown.name = "DuplicateSymbolError"
            /\ thrown.file \in ValidArtifacts
            /\ mergedSchema = Null
       /\ stage = "Done" => thrown = NoError /\ HasDefinitionsOfValid

\* three artifacts, one malformed: the schema has the definitions of the
\* two valid ones
C7_Witness ==
    /\ stage = "Done"
    /\ Cardinality(FailedArtifacts) = 1
    /\ Cardinality(ValidArtifacts) = 2
    /\ Len(mergedSchema.definitions) = 2

\* C8 as stated: if every artifact fails extraction, Generate rejects.
C8_AllFailedRejects ==
    (Finished /\ AllFailed) => stage = "Failed" /\ thrown # NoError

\* C8 amended: if every artifact fails extraction, processFiles returns an
\* empty map and Generate prints "No types found to generate schemas for"
\* and resolves normally, without validating, merging or writing anything.
C8_AllFailedResolvesEmpty ==
    (Finished /\ AllFailed)
    => /\ stage = "Done"
       /\ thrown = NoError
       /\ Len(results) = Len(crawled)
       /\ schemaMap = <<>>
       /\ mergedSchema = Null
       /\ outputFile = Null
       /\ console # <<>>
       /\ console[Len(console)] = Line("log", "No types found to generate schemas for", "", 0)

C8_Witness ==
    /\ stage = "Done"
    /\ AllFailed
    /\ Cardinality(FailedArtifacts) = 3

WarnLines == SelectSeq(console, LAMBDA l : l.level = "warn")

\* the failed artifacts in the order of consolidateSchemas
FailedInOrder ==
    LET Before(a, b) == localeCompare(a, b) < 0
    IN  StableSort(SelectSeq(SortFiles(crawled), LAMBDA p : disk[p] = Malformed), Before)

\* C9 as stated: whenever k >= 1 artifacts fail extraction the run reports
\* exactly those k failures, whatever the verbosity.
C9_FailuresAlwaysReported ==
    (Extracted /\ FailedArtifacts # {})
    => /\ Len(WarnLines) = Cardinality(FailedArtifacts) + 1
       /\ {WarnLines[i].arg : i \in 2..Len(WarnLines)} = FailedArtifacts

\* C9 amended: when verbose is set, a run in which k >= 1 artifacts fail
\* extraction prints the count k and then one line per failed artifact, in
\* path order; when verbose is not set it prints nothing about them.
C9_FailuresReportedWhenVerbose ==
    ((Extracted \/ (stage = "Done" /\ crawled # <<>>)) /\ FailedArtifacts # {})
    => IF options.verbose
       THEN /\ Len(WarnLines) = Cardinality(FailedArtifacts) + 1
            /\ WarnLines[1].n = Cardinality(FailedArtifacts)
            /\ [i \in 1..(Len(WarnLines) - 1) |-> WarnLines[i + 1].arg] = FailedInOrder
            /\ \A i \in 2..Len(WarnLines) : WarnLines[i].text = "Failed to process"
       ELSE WarnLines = <<>>

\* a verbose run with two failed artifacts and one valid one
C9_Witness ==
    /\ stage = "Done"
    /\ options.verbose
    /\ Cardinality(FailedArtifacts) = 2
    /\ Cardinality(ValidArtifacts) = 1
    /\ Len(WarnLines) = 3

\* C10: when no artifact matches or the root cannot be read, discoverFiles
\* throws a FileDiscoveryError and Generate rejects with it without having
\* run extraction, validation or merge; discoverFiles never returns an empty
\* list.
C10_DiscoveryFails ==
    /\ stage \in {"Extracting", "Validating", "Merging", "Done"} => files # <<>>
    /\ ((~rootReadable \/ Present(disk) = {}) /\ stage \notin {"Idle", "Discovering"})
       => /\ stage = "Failed"
          /\ thrown.name = "FileDiscoveryError"
          /\ thrown.code = "FILE_DISCOVERY_ERROR"
          /\ files = <<>>
          /\ sortedFiles = <<>>
          /\ settled = <<>>
          /\ results = <<>>
          /\ schemaMap = <<>>
          /\ mergedSchema = Null
          /\ outputFile = Null

\* a readable root without any matching artifact
C10_Witness ==
    /\ stage = "Failed"
    /\ rootReadable
    /\ Present(disk) = {}
    /\ thrown = FileDiscoveryError("No files found matching pattern")

\* indexes of the fragments of a map that declare a dialect
DeclaringDialect(map) == {i \in 1..Len(map) : map[i][2].schema # ""}

\* fragment i comes before fragment j in path order; paths that localeCompare
\* does not order stay in the order of the map
PathBefore(map, i, j) ==
    \/ localeCompare(map[i][1], map[j][1]) < 0
    \/ (localeCompare(map[i][1], map[j][1]) = 0 /\ i < j)

\* C19: the dialect of the schema returned by mergeSchemas is the dialect of
\* the first fragment, in ascending path order, that declares a non-empty
\* one; when no fragment declares one it is the default dialect, and an
\* empty map gives the default dialect and empty definitions.
C19_DialectOfFirstDeclaring ==
    (stage = "Caller" /\ mergedSchema # Null)
    => /\ \A i \in DeclaringDialect(schemaMap) :
            (\A j \in DeclaringDialect(schemaMap) \ {i} : PathBefore(schemaMap, i, j))
            => mergedSchema.schema = schemaMap[i][2].schema
       /\ DeclaringDialect(schemaMap) = {} => mergedSchema.schema = DefaultDialect
       /\ schemaMap = <<>> => mergedSchema.definitions = <<>>

\* two fragments declaring different dialects, inserted in the map against
\* the path order: the merged schema has the dialect of the second entry
C19_Witness ==
    /\ stage = "Caller"
    /\ mergedSchema # Null
    /\ Len(schemaMap) = 2
    /\ schemaMap[1][2].schema = "draft-07"
    /\ schemaMap[2][2].schema = "2019-09"
    /\ localeCompare(schemaMap[2][1], schemaMap[1][1]) < 0
    /\ mergedSchema.schema = "2019-09"

\* the named imports of SchemaDefinition.ts, one declaration after the other
RECURSIVE NamedImports(_)
NamedImports(imports) ==
    IF imports = <<>> THEN <<>>
    ELSE Head(imports).namedImports \o NamedImports(Tail(imports))

\* C20: the symbols emitted into SchemaDefinition.ts (the schemas constant,
\* ISchema and the named imports) are the sorted symbol list of the
\* consolidated schema: each symbol once, in ascending symbol-name order.
C20_HelpersInSymbolOrder ==
    (stage = "Done" /\ mergedSchema # Null /\ options.helpers)
    => /\ schemaDefinition # Null
       /\ schemaDefinition.schemas = Keys(mergedSchema.definitions)
       /\ schemaDefinition.ISchema = Keys(mergedSchema.definitions)
       /\ NamedImports(schemaDefinition.imports) = Keys(mergedSchema.definitions)

(***************************************************************************)
(* Properties of discovery and of the cache.                               *)
(***************************************************************************)
\* discoverFiles has returned its list to Generate
Discovered == stage = "Extracting" \/ Extracted

\* nothing was changed from outside since the current run began
Untouched == since = {}

PathsOf(fileInfos) == [i \in 1..Len(fileInfos) |-> fileInfos[i].path]

\* every hash a cache record may hold
Hashes == {md5(c) : c \in CacheContents}

\* the mapping the previous run persisted
PreviousRecords == previous.cacheWrites[Len(previous.cacheWrites)]

\* the mapping has exactly the artifacts on disk, each with its hash
RecordsOfDisk(records) ==
    /\ Range(Keys(records)) = Present(disk)
    /\ Len(records) = Cardinality(Present(disk))
    /\ \A i \in 1..Len(records) : records[i][2] = md5(disk[records[i][1]])

\* C11: discoverFiles returns the paths of exactly the matching artifacts,
\* each once, in strictly ascending code-unit order, whatever the order in
\* which the crawl yields them, with the cache (every file then carries its
\* hash) and without it.
C11_DiscoveredSorted ==
    (Discovered /\ Untouched)
    => /\ Range(PathsOf(files)) = Present(disk)
       /\ \A i, j \in 1..Len(files) : i < j => OrdinalBefore(files[i].path, files[j].path)
       /\ \A i \in 1..Len(files) :
            files[i].hash = IF options.cacheEnabled THEN md5(disk[files[i].path])
                            ELSE NoHash

\* with the cache, the crawl yielded two artifacts against code-unit order
C11_Witness ==
    /\ stage = "Extracting"
    /\ options.cacheEnabled
    /\ Len(crawled) = 2
    /\ OrdinalBefore(crawled[2], crawled[1])
    /\ PathsOf(files) = <<crawled[2], crawled[1]>>

\* the constructor printed that the cache could not be loaded
LoadFailed ==
    /\ console # <<>>
    /\ console[1].text = "Failed to load cache, starting fresh"

\* C12: constructing a FileDiscovery with the cache enabled never raises;
\* with a missing or corrupt cache file the in-memory mapping is empty, and
\* the discovery that follows a failed load returns the artifacts with
\* their hashes and rewrites a valid cache file.
C12_LoadNeverRaises ==
    /\ (stage = "Discovering" /\ fresh /\ options.cacheEnabled
          /\ (~cacheFile.exists \/ cacheFile.corrupt))
       => fileCache = <<>> /\ thrown = NoError
    /\ (LoadFailed /\ Discovered /\ Untouched)
       => /\ Range(PathsOf(files)) = Present(disk)
          /\ cacheFile.exists
          /\ ~cacheFile.corrupt
          /\ RecordsOfDisk(cacheFile.data)
          /\ \A i \in 1..Len(files) :
                ~hasFileChanged(fileCache, files[i].path, files[i].hash)

\* a run that found a corrupt cache file and completed with a schema
C12_Witness ==
    /\ stage = "Done"
    /\ LoadFailed
    /\ Untouched
    /\ Len(files) = 2
    /\ mergedSchema # Null

\* C13: no cache I/O failure surfaces: with artifacts on disk Generate never
\* rejects with a FileDiscoveryError, and clearCache never throws.
C13_CacheFailuresRecovered ==
    /\ "clearCache threw" \notin since
    /\ (Untouched /\ Present(disk) # {})
       => ~(stage = "Failed" /\ thrown.name = "FileDiscoveryError")

\* C14: after the content of an artifact changed and a run with the cache
\* hashed it, hasFileChanged(path, oldHash) is true and the hash persisted
\* for the path differs from the one persisted before the change.
C14_ChangeDetected ==
    (Discovered /\ Untouched /\ options.cacheEnabled /\ previous.cacheWrites # <<>>)
    => \A i \in 1..Len(files) :
          LET path == files[i].path
          IN  (path \in previous.since /\ Has(PreviousRecords, path))
              => /\ hasFileChanged(fileCache, path, Get(PreviousRecords, path))
                 /\ Has(cacheFile.data, path)
                 /\ Get(cacheFile.data, path) # Get(PreviousRecords, path)

\* a run with the cache over an artifact rewritten since the previous run
\* persisted its hash
C14_Witness ==
    /\ stage = "Done"
    /\ Untouched
    /\ options.cacheEnabled
    /\ previous.cacheWrites # <<>>
    /\ \E i \in 1..Len(files) :
          /\ files[i].path \in previous.since
          /\ Has(PreviousRecords, files[i].path)

\* C15: right after clearCache() the cache file does not exist, the
\* in-memory mapping is empty and hasFileChanged is true for every path and
\* hash; clearCache throws only when there is a file to delete.
C15_ClearCacheEmpties ==
    /\ "clearCache" \in since
       => /\ ~cacheFile.exists
          /\ fileCache = <<>>
          /\ \A path \in Paths : \A hash \in Hashes :
                hasFileChanged(fileCache, path, hash)
    /\ ("clearCache threw" \in since /\ "clearCache" \notin since) => cacheFile.exists

\* clearCache called after a run that persisted two records
C15_Witness ==
    /\ stage = "Done"
    /\ "clearCache" \in since
    /\ cacheWrites # <<>>
    /\ Len(cacheWrites[1]) = 2

\* C16: a run with the cache on inputs unchanged since the previous run with
\* the cache, also after clearCache() or with the cache file damaged in
\* between, leaves the same persisted records and the same output.
C16_RerunIdempotent ==
    (stage = "Done" /\ Untouched /\ options.cacheEnabled /\ previous.cacheEnabled
       /\ previous.outcome = "resolved" /\ previous.cacheWrites # <<>>
       /\ previous.since \cap Paths = {})
    => /\ cacheFile.exists
       /\ ~cacheFile.corrupt
       /\ cacheFile.data = PreviousRecords
       /\ mergedSchema = previous.schema
       /\ outputFile = previous.schema

\* the second of two runs with the cache, clearCache called in between
C16_Witness ==
    /\ stage = "Done"
    /\ Untouched
    /\ options.cacheEnabled
    /\ previous.cacheEnabled
    /\ previous.outcome = "resolved"
    /\ previous.since = {"clearCache"}
    /\ Len(cacheFile.data) = 2
    /\ mergedSchema # Null

\* C17: a run writes the cache file at most once, and only with the cache
\* enabled; when discovery succeeds with the cache it wrote it exactly once,
\* with the hash of every discovered artifact and nothing else, and the
\* file, in its directory, holds that mapping.
C17_SingleFullWrite ==
    /\ Len(cacheWrites) <= 1
    /\ ~options.cacheEnabled => cacheWrites = <<>>
    /\ (Discovered /\ Untouched /\ options.cacheEnabled)
       => /\ Len(cacheWrites) = 1
          /\ RecordsOfDisk(cacheWrites[1])
          /\ cacheFile.dir
          /\ cacheFile.exists
          /\ cacheFile.data = cacheWrites[1]

\* the previous run persisted two records, one artifact was deleted, and
\* this run persisted one record
C17_Witness ==
    /\ stage = "Done"
    /\ Untouched
    /\ options.cacheEnabled
    /\ previous.cacheWrites # <<>>
    /\ Len(PreviousRecords) = 2
    /\ Len(cacheWrites) = 1
    /\ Len(cacheWrites[1]) = 1

\* C18: on a repeat run with the cache an artifact whose hash equals the
\* hash persisted by the previous run is not extracted again.
C18_UnchangedSkipped ==
    (Extracted /\ Untouched /\ options.cacheEnabled /\ previous.cacheWrites # <<>>
       /\ previous.since \subseteq Paths)
    => \A i \in 1..Len(results) :
          ~(/\ Has(PreviousRecords, results[i].file)
            /\ Get(PreviousRecords, results[i].file) = md5(disk[results[i].file]))

\* ---------------------------------------------------------------------------
\* What discovery writes
\* ---------------------------------------------------------------------------

\* The step taken by a call of discoverFiles.
DiscoveryStep == stage = "Discovering" /\ stage' # "Discovering"

\* C21 (as amended): a call of discoverFiles never changes an artifact or an
\* output file; with caching disabled it performs no write at all and leaves
\* the cache file and its directory as they were, so these change only in a
\* run with caching enabled.
C21_DiscoveryWritesOnlyCache ==
    [][DiscoveryStep =>
         /\ disk' = disk
         /\ outputFile' = outputFile
         /\ schemaDefinition' = schemaDefinition
         /\ ~options.cacheEnabled => cacheFile' = cacheFile /\ cacheWrites' = cacheWrites]_vars

\* C21 (as stated): a call of discoverFiles performs no write in any
\* configuration, so the cache file is the same before and after it.
C21_DiscoveryPure ==
    [][DiscoveryStep =>
         /\ disk' = disk
         /\ outputFile' = outputFile
         /\ schemaDefinition' = schemaDefinition
         /\ cacheFile' = cacheFile
         /\ cacheWrites' = cacheWrites]_vars

\* A discovery without caching has returned and the cache file written by the
\* previous, caching run is still there, with nothing written in this run.
C21_Witness ==
    /\ stage = "Extracting"
    /\ ~options.cacheEnabled
    /\ Untouched
    /\ previous # NoRun
    /\ previous.cacheEnabled
    /\ cacheFile.exists
    /\ cacheFile.data # <<>>
    /\ cacheWrites = <<>>

\* ---------------------------------------------------------------------------
\* Properties of validation and merge called on any fragment map
\* ---------------------------------------------------------------------------

\* fragments that declare the symbol and come before fragment i in path order
EarlierDeclaring(map, i, symbol) ==
    {j \in Declaring(map, symbol) : j # i /\ PathBefore(map, j, i)}

\* the node recorded for the symbol when the scan reaches fragment i: the one
\* of the latest earlier fragment that declares it
Recorded(map, i, symbol) ==
    LET earlier == EarlierDeclaring(map, i, symbol)
    IN  NodeAt(map, CHOOSE j \in earlier :
                       \A k \in earlier \ {j} : PathBefore(map, k, j), symbol)

\* the places <<fragment, symbol>> of the scan where the node differs
\* structurally from the one recorded from the earlier fragments
ScanConflicts(map) ==
    {c \in (1..Len(map)) \X Symbols :
        /\ Has(map[c[1]][2].definitions, c[2])
        /\ EarlierDeclaring(map, c[1], c[2]) # {}
        /\ ~StructurallyEqual(Recorded(map, c[1], c[2]), NodeAt(map, c[1], c[2]))}

\* place c is scanned before place d: fragments in ascending path order,
\* the symbols of a fragment in ascending name order
ScannedBefore(map, c, d) ==
    \/ c[1] # d[1] /\ PathBefore(map, c[1], d[1])
    \/ c[1] = d[1] /\ OrdinalBefore(c[2], d[2])

C23_PassesIffStructurallyEqual ==
    (stage = "Caller" /\ thrown # Pending) =>
        /\ thrown = NoError <=> ~StructuralConflict(schemaMap)
        /\ (\A symbol \in SymbolsIn(schemaMap) :
                Cardinality(Declaring(schemaMap, symbol)) = 1) => thrown = NoError

\* the fragment that declares the symbol last in path order
LastDeclaring(map, symbol) ==
    CHOOSE i \in Declaring(map, symbol) :
        \A j \in Declaring(map, symbol) \ {i} : PathBefore(map, j, i)

\* the definitions of a merged schema hold every symbol of the map once,
\* each with the node of the last fragment in path order that declares it
MergedFromLast(merged, map) ==
    LET keys == Keys(merged.definitions)
    IN  /\ Range(keys) = SymbolsIn(map)
        /\ Len(keys) = Cardinality(SymbolsIn(map))
        /\ \A symbol \in SymbolsIn(map) :
              Get(merged.definitions, symbol) = NodeAt(map, LastDeclaring(map, symbol), symbol)

\* C24: for any fragment map a call of mergeSchemas returns a schema (it never
\* fails, validated input or not) whose definition keys are exactly the
\* symbols of all fragments, each once, every symbol with the node of the
\* last fragment in ascending path order that declares it; the call leaves
\* the fragment map as it was.
C24_MergeTakesLast ==
    [][(stage = "Caller" /\ mergedSchema = Null /\ mergedSchema' # mergedSchema) =>
          /\ mergedSchema' # Null
          /\ MergedFromLast(mergedSchema', schemaMap)
          /\ schemaMap' = schemaMap
          /\ thrown' = thrown]_vars

\* merge was called on two fragments that declare the same symbol with
\* different nodes, put in the map against the path order: the result has
\* the node of the first entry of the map, the last one in path order
C24_Witness ==
    /\ stage = "Caller"
    /\ mergedSchema # Null
    /\ Len(schemaMap) = 2
    /\ PathBefore(schemaMap, 2, 1)
    /\ \E symbol \in SymbolsIn(schemaMap) :
          /\ Declaring(schemaMap, symbol) = {1, 2}
          /\ ~StructurallyEqual(NodeAt(schemaMap, 1, symbol), NodeAt(schemaMap, 2, symbol))
          /\ Get(mergedSchema.definitions, symbol) = NodeAt(schemaMap, 1, symbol)
          /\ Len(Keys(mergedSchema.definitions)) = 1

\* ---------------------------------------------------------------------------
\* Order of the stages and what a failing run leaves behind
\* ---------------------------------------------------------------------------

\* the step enters the stage
Enters(s) == stage # s /\ stage' = s

\* the step writes the schema file or a helper file
WritesOutput == outputFile' # outputFile \/ schemaDefinition' # schemaDefinition

\* C25: in every run the stages occur only in the order Discovering,
\* Extracting, Validating, Merging, each entered only after the previous one
\* succeeded; the schema file and the helper files are written only in
\* Merging, after validation has succeeded, so a run that fails (it can fail
\* only in Discovering or in Validating) writes no output file and leaves the
\* output of the earlier runs as it was.
C25_StagesInOrder ==
    [][/\ Enters("Discovering") => stage \in {"Idle", "Done", "Failed"}
       /\ Enters("Extracting") =>
             stage = "Discovering" /\ thrown' = NoError /\ files' # <<>>
       /\ Enters("Validating") =>
             stage = "Extracting" /\ Len(results') = Len(files) /\ schemaMap' # <<>>
       /\ Enters("Merging") =>
             stage = "Validating" /\ validateSchemaCompatibility(schemaMap) = NoError
       /\ Enters("Done") => stage \in {"Merging", "Extracting"}
       /\ Enters("Failed") =>
             stage \in {"Discovering", "Validating"} /\ thrown' # NoError /\ ~WritesOutput
       /\ WritesOutput =>
             /\ stage = "Merging"
             /\ thrown = NoError
             /\ validateSchemaCompatibility(schemaMap) = NoError
             /\ outputFile' = mergeSchemas(schemaMap)]_vars

\* a run failed in Validating after an earlier run had written its output:
\* the schema file still holds the schema of the earlier run
C25_Witness ==
    /\ stage = "Failed"
    /\ thrown.name = "DuplicateSymbolError"
    /\ previous.outcome = "resolved"
    /\ previous.schema # Null
    /\ outputFile = previous.schema
    /\ schemaDefinition # Null

\* the run got past discovery
PastDiscovery ==
    \/ stage \in {"Extracting", "Validating", "Merging", "Done"}
    \/ stage = "Failed" /\ thrown.name # "FileDiscoveryError"

\* C27: the cache is persisted during discovery, before extraction and
\* validation start: from the moment discovery has returned in a run with
\* caching enabled, and also when the run later fails with a
\* DuplicateSymbolError or ends without output because every extraction
\* failed, the cache file holds exactly the hashes of the current contents of
\* the artifacts.
C27_CachePersistedInDiscovery ==
    (options.cacheEnabled /\ runs > 0 /\ PastDiscovery /\ Untouched) =>
        /\ cacheFile.exists
        /\ ~cacheFile.corrupt
        /\ RecordsOfDisk(cacheFile.data)
        /\ stage = "Extracting" /\ results = <<>> => cacheWrites # <<>>

\* a caching run in which every extraction failed ended without output after
\* persisting its hashes; the artifacts were edited and the next caching run,
\* over two artifacts in conflict, ended with the DuplicateSymbolError and no
\* output while the cache file holds the hashes of both
C27_Witness ==
    /\ previous.cacheEnabled
    /\ previous.outcome = "resolved"
    /\ previous.schema = Null
    /\ previous.cacheWrites # <<>>
    /\ options.cacheEnabled
    /\ Untouched
    /\ stage = "Failed"
    /\ thrown.name = "DuplicateSymbolError"
    /\ mergedSchema = Null
    /\ outputFile = Null
    /\ Len(cacheFile.data) = 2
    /\ RecordsOfDisk(cacheFile.data)

\* ---------------------------------------------------------------------------
\* The fragment map returned by processFiles
\* ---------------------------------------------------------------------------

\* processFiles has returned
Returned == stage \in {"Validating", "Done"} /\ Len(results) = Len(files)

\* position of the path in the list of files handed to processFiles
InputIndex(path) == CHOOSE i \in 1..Len(files) : files[i].path = path

C28_MemoryEqualsPersisted ==
    (options.cacheEnabled /\ Discovered /\ Untouched) =>
        Range(fileCache) = Range(cacheFile.data)

\* C28 (as amended): after every discovery with caching enabled the persisted
\* mapping holds exactly the discovered artifacts, and the in-memory mapping
\* agrees with it on them; the in-memory mapping may hold more: records of
\* paths that are no longer discovered, loaded from the earlier cache file or
\* kept from an earlier call, which saveCache never removes.
C28_PersistedWithinMemory ==
    (options.cacheEnabled /\ Discovered /\ Untouched) =>
        /\ Range(Keys(cacheFile.data)) = Range(PathsOf(files))
        /\ Range(cacheFile.data) \subseteq Range(fileCache)
        /\ \A i \in 1..Len(fileCache) :
              \/ fileCache[i] \in Range(cacheFile.data)
              \/ fileCache[i][1] \notin Range(PathsOf(files)) /\ disk[fileCache[i][1]] = Absent
        /\ Len(fileCache) = Cardinality(Range(Keys(fileCache)))

\* an artifact was deleted after a run that persisted two records: the new
\* generator loaded both, persisted one and still holds two in memory
C28_Witness ==
    /\ options.cacheEnabled
    /\ Discovered
    /\ Untouched
    /\ fresh
    /\ Len(cacheFile.data) = 1
    /\ Len(fileCache) = 2
    /\ \E i \in 1..2 : disk[fileCache[i][1]] = Absent

\* ---------------------------------------------------------------------------
\* The three helper tasks on the shared project
\* ---------------------------------------------------------------------------

\* the task that creates the helper file
TaskOf(file) == CHOOSE task \in 1..Len(HelperTasks) : OutputFileOf(task) = file

\* the helper file on disk has its complete content
Complete(file) ==
    helperFiles[file] = CompleteText(TaskOf(file), extractTypeInfo(schemaMap, disk))

\* C29: the three tasks of helper generation share one project and each
\* calls project.save(); in every interleaving of the saves, what a save has
\* written to a helper file is the completely built content of that file,
\* never a file that is still being built, and when Generate resolves the
\* three helper files exist with their complete content.
C29_SavesPersistCompleteFiles ==
    /\ stage = "Helpers" =>
          \A file \in HelperFiles :
              helperFiles[file] \in {Null, StaleText} \/ Complete(file)
    /\ (stage = "Done" /\ project # NoProject) =>
          /\ \A file \in HelperFiles : helperFiles[file] # Null /\ Complete(file)
          /\ schemaDefinition = writeSchemaDefinitionFile(extractTypeInfo(schemaMap, disk))

\* Generate resolved over helper files of an earlier run after the save of
\* the first task wrote the file of the third task and the save of the third
\* task the file of the first
C29_Witness ==
    /\ stage = "Done"
    /\ project # NoProject
    /\ \A task \in 1..Len(HelperTasks) : tasks[task].state = "resolved"
    /\ OutputFileOf(3) \in tasks[1].wrote
    /\ OutputFileOf(1) \in tasks[3].wrote
    /\ \A file \in HelperFiles : Complete(file) /\ project[file].saved
    /\ Len(schemaMap) = 2

\* ---------------------------------------------------------------------------
\* The symbol list of the helpers
\* ---------------------------------------------------------------------------

\* C30: the symbol list used for helper generation holds each symbol name at
\* most once, so the schemas constant and ISchema of SchemaDefinition.ts have
\* one entry per symbol, also when several artifacts declare the same symbol
\* with the same shape.
C30_EachSymbolOnce ==
    (stage = "Done" /\ mergedSchema # Null /\ schemaDefinition # Null) =>
        LET typeInfos == extractTypeInfo(schemaMap, disk)
            symbols == [i \in 1..Len(typeInfos) |-> typeInfos[i].symbol]
        IN  /\ Len(symbols) = Cardinality(Range(symbols))
            /\ Len(schemaDefinition.schemas) = Cardinality(Range(schemaDefinition.schemas))
            /\ Len(schemaDefinition.ISchema) = Cardinality(Range(schemaDefinition.ISchema))

====
